---- MODULE Spec2Model ----
(***************************************************************************)
(* Activation-code servers of activation-cloud-server.                     *)
(*                                                                         *)
(*   variant "A"  src/activation_server.py  activate on first verify,      *)
(*                time-bounded; the store is the in-memory self.db of one  *)
(*                ActivationDatabase object, dumped to the file on every   *)
(*                mutation.                                                *)
(*   variant "B"  src/cloud_server.py  verify is read-only, activate is a  *)
(*                separate call; every handler loads the file, mutates its *)
(*                private copy and writes the file back.                   *)
(*                                                                         *)
(* Both are Flask applications: requests run on concurrent worker threads  *)
(* and nothing in either file takes a lock.  A worker's handler is cut     *)
(* into steps at its accesses to shared state (self.db, the file, the      *)
(* clock); computation on private data is folded into the step before it.  *)
(*                                                                         *)
(* Strings.  A code string is modelled by the sequence of its '-'          *)
(* separated fields, so that str.split('-') yields the sequence and an     *)
(* f-string join is concatenation.  A field is a sequence of atoms: a      *)
(* plain field is <<"SIQIU">>, a signature field is the tag "HMAC16", the  *)
(* key and the atoms of the signed data (HMAC-SHA256 taken as collision    *)
(* free).  Record fields that no handler reads back (notes, device_id,     *)
(* generated_at, created_at, the log timestamp) are left out.              *)
(***************************************************************************)
EXTENDS Integers, Sequences, FiniteSets, TLC

(* ---------------------------------------------------------------- bounds *)
MaxClock == 2          \* the clock runs over 0..MaxClock ticks
TicksPerDay == 2       \* clock ticks in one day (timedelta(days=1))
MaxRequests == 3       \* requests accepted in one behaviour
MaxCount == 2          \* largest count of one generate_code request (A)
MaxCountB == 1         \* largest count of one admin_generate request (B)
MaxFaults == 1         \* dumps of self.db that raise in one behaviour (A)
MaxOverflow == 3       \* add_log calls made beyond the cap of the log (LogSpec)

Threads == {1, 2}
Salts == {"A1", "B2"}
Addrs == {"10.0.0.1", "10.0.0.2"}
\* the days of an admin_generate request (B)
DurationInputs == {0, 1}
\* the (type, duration_days) of a generate_code request (A)
IssueInputsA == {<<"trial", 1>>, <<"permanent", 0>>}

None == -1

(* --------------------------------------------------------------- strings *)
Tok(s) == <<s>>

RECURSIVE Concat(_)
Concat(fields) ==
    IF fields = <<>> THEN <<>> ELSE Head(fields) \o Concat(Tail(fields))

UpperAtom(a) ==
    CASE a = "siqiu" -> "SIQIU"
      [] a = "d001" -> "D001"
      [] a = "p000" -> "P000"
      [] OTHER -> a

\* code.strip().upper() on a code string.  A signature is an upper-case hex digest:
\* upper() leaves it as it is, it does not turn it into the signature of the
\* upper-cased data.
Normalize(code) ==
    [i \in 1..Len(code) |->
        IF code[i] # <<>> /\ code[i][1] = "HMAC16" THEN code[i]
        ELSE [j \in 1..Len(code[i]) |-> UpperAtom(code[i][j])]]

SECRET_KEY == "SIQIU-2025-AI-ASSISTANT-SECRET-KEY-PLEASE-CHANGE"

\* hmac.new(SECRET_KEY, data, sha256).hexdigest()[:16].upper()
generate_signature(data) == <<"HMAC16", SECRET_KEY>> \o Concat(data)

\* a check of the field count that lets longer inputs through (len(parts) < 5)
FormatOK_AtLeast(parts) == Len(parts) >= 5

\* parts = code.split('-'); len(parts) != 5 is the format error
FormatOK(parts) == Len(parts) = 5

\* a handler that leaves the signature check out, as activate_code does
SignatureOK_Skipped(parts) == TRUE

\* signature != generate_signature(sign_data) is the signature error
SignatureOK(parts) == parts[5] = generate_signature(SubSeq(parts, 1, 4))

\* hashlib.sha256(code.encode()).hexdigest(): the key of a record
hash_code(code) == <<Tok("SHA256")>> \o code

\* datetime.now().strftime("%y%m%d") / ("%Y%m%d")
DayOf(t) == t \div TicksPerDay
DateStampA(t) == Tok(<<"250101", "250102", "250103", "250104", "250105">>[DayOf(t) + 1])
DateStampB(t) == Tok(<<"20250101", "20250102", "20250103", "20250104", "20250105">>[DayOf(t) + 1])

\* timedelta(days=d) in clock ticks
Timedelta(d) == d * TicksPerDay

Put(f, k, v) == [x \in DOMAIN f \cup {k} |-> IF x = k THEN v ELSE f[x]]

NoCodes == [k \in {} |-> None]

(* ----------------------------------------------------------------- state *)
VARIABLES
    variant,     \* "A" or "B": which server runs
    now,         \* the wall clock, datetime.now()
    db,          \* variant A: ActivationDatabase.db, [codes, logs]
    file,        \* DB_FILE: [content, torn]; torn: truncated or garbage, unparsable
    pc,          \* position of each worker thread in its handler
    loc,         \* the handler's local variables
    resp,        \* the response returned by the step just taken, if any
    nreq,        \* requests accepted so far
    faults,      \* variant A: dumps of self.db that have raised so far
    acked        \* history: codes for which an activate has returned success (B),
                 \* codes for which a verify has returned "expired" (A)

vars == <<variant, now, db, file, pc, loc, resp, nreq, faults, acked>>

NoResult ==
    [valid |-> FALSE, message |-> "none", expire_at |-> None, activated_at |-> None,
     days |-> None]

\* a record of variant A (add_code) and of variant B (admin_generate, activate_code);
\* NoRecA / NoRecB stand for "no record"
NoRecA ==
    [code |-> <<>>, type |-> "none", duration_days |-> 0, activated |-> FALSE,
     activated_at |-> None]
NoRecB ==
    [code |-> <<>>, type |-> "none", days |-> 0, used |-> FALSE, used_at |-> None,
     used_by |-> "None"]

\* the locals of a handler.  orphan: the dict object code_info refers to has been
\* replaced in self.db by add_code.  overwritten: another writer's text reached the
\* file after this writer truncated it.  Ghost parts: io_failed (a load or save of
\* this request failed), pre (the record as the handler loaded it).
NoLoc ==
    [op |-> "none", code |-> <<>>, view |-> NoCodes, ci |-> NoRecA, orphan |-> FALSE,
     result |-> NoResult, remaining |-> 0, out |-> <<>>, typ |-> "none", days |-> 0,
     prefix |-> <<>>, addr |-> "None", overwritten |-> FALSE, io_failed |-> FALSE,
     pre |-> NoRecB, at |-> None]

\* a response.  Ghost parts: io_failed, pre, post (the record the handler left in
\* the store), acked_before (B: an activate of this code had returned success
\* before this request began; A: a verify of this code had returned "expired"
\* before this response), first (this verify activated the record), days (the
\* duration of the record verified); for a verify of variant A, pre is the record
\* of the code when the handler read the store and at is the clock at that read.  records: the records a list request returns.
NoResp ==
    [op |-> "none", code |-> <<>>, status |-> 0, ok |-> FALSE, message |-> "none",
     expire_at |-> None, activated_at |-> None, codes |-> <<>>, io_failed |-> FALSE,
     pre |-> NoRecB, post |-> NoRecB, acked_before |-> FALSE, first |-> FALSE,
     days |-> None, records |-> {}, at |-> None]

\* ActivationDatabase.__init__ on a missing file / init_database
EmptyDb == [codes |-> NoCodes, logs |-> <<>>]

Init ==
    /\ variant \in {"A", "B"}
    /\ now = 0
    /\ db = EmptyDb
    /\ file = [content |-> IF variant = "A" THEN EmptyDb ELSE NoCodes, torn |-> FALSE]
    /\ pc = [t \in Threads |-> "idle"]
    /\ loc = [t \in Threads |-> NoLoc]
    /\ resp = NoResp
    /\ nreq = 0
    /\ faults = 0
    /\ acked = {}

\* A step that reads the clock can still follow: a request can start, or a handler
\* of variant A stands before one of its datetime.now() calls.  Time that passes
\* when nothing reads the clock any more changes nothing a handler or a client sees,
\* and a tick before a step that does not read the clock is the same as one after.
ClockRead ==
    \/ nreq < MaxRequests /\ \E t \in Threads : pc[t] = "idle"
    \/ \E t \in Threads :
          \/ pc[t] \in {"av_set_activated_at", "ag_loop"}
          \/ pc[t] = "av_log" /\ loc[t].ci # NoRecA

Tick ==
    /\ now < MaxClock
    /\ ClockRead
    /\ now' = now + 1
    /\ resp' = NoResp
    /\ UNCHANGED <<variant, db, file, pc, loc, nreq, faults, acked>>

Respond(t, r) ==
    /\ resp' = r
    /\ pc' = [pc EXCEPT ![t] = "idle"]
    /\ loc' = [loc EXCEPT ![t] = NoLoc]

\* a request is served by a fresh thread: the first idle one
Dispatch(t) == pc[t] = "idle" /\ \A u \in Threads : u < t => pc[u] # "idle"

(* ============================ variant A: activation_server.py ========== *)
LOG_CAP == 1000

\* ActivationDatabase.save_database: the dump of self.db; an exception is logged
\* and swallowed (return False, which no caller looks at), the file stays as it was
ActivationDatabase_save_database(d, fail) ==
    IF fail THEN file ELSE [content |-> d, torn |-> FALSE]

\* the dump raises in at most MaxFaults calls of one behaviour
FaultChoices == IF faults < MaxFaults THEN BOOLEAN ELSE {FALSE}
Charge(fail) == faults' = IF fail THEN faults + 1 ELSE faults

\* ActivationDatabase.add_code: a new dict object replaces whatever is under the key
ActivationDatabase_add_code(d, code, type_name, duration_days) ==
    [d EXCEPT !.codes = Put(d.codes, hash_code(code),
        [code |-> code, type |-> type_name, duration_days |-> duration_days,
         activated |-> FALSE, activated_at |-> None])]

\* code[:10] + "...": the redacted form written to the log
Redact(code) == SubSeq(code, 1, 1)

\* a trim that keeps the head of the list: self.db["logs"][:1000]
ActivationDatabase_add_log_head(d, action, details) ==
    LET appended == Append(d.logs, [action |-> action, details |-> details])
    IN  [d EXCEPT !.logs =
            IF Len(appended) > LOG_CAP THEN SubSeq(appended, 1, LOG_CAP) ELSE appended]

\* ActivationDatabase.add_log without its save
ActivationDatabase_add_log(d, action, details) ==
    LET appended == Append(d.logs, [action |-> action, details |-> details])
    IN  [d EXCEPT !.logs =
            IF Len(appended) > LOG_CAP
            THEN SubSeq(appended, Len(appended) - LOG_CAP + 1, Len(appended))
            ELSE appended]

\* generate_activation_code with the drawn salt made explicit
generate_activation_code(type_code, salt, t) ==
    LET sign_data == <<Tok("SIQIU"), Tok(type_code), DateStampA(t), Tok(salt)>>
    IN  sign_data \o <<generate_signature(sign_data)>>

\* type_map.get(type_code.lower(), ("TRIAL", ...))
type_map(type_code) ==
    CASE type_code = "trial" -> <<"TRIAL", "trial edition">>
      [] type_code = "month" -> <<"MONTH", "month edition">>
      [] type_code = "year" -> <<"YEAR", "year edition">>
      [] type_code = "permanent" -> <<"PERM", "permanent edition">>
      [] OTHER -> <<"TRIAL", "trial edition">>

\* a write through the reference code_info: it reaches the store only while the
\* dict object the handler fetched is still the one under the key
WriteThrough(d, l, field, value) ==
    IF l.orphan THEN d ELSE [d EXCEPT !.codes[hash_code(l.ci.code)][field] = value]

\* a verify_code without the expiry test of lines 99-106
verify_code_read_no_expiry(d, code, t) ==
    LET k == hash_code(code) IN
    IF k \notin DOMAIN d.codes
    THEN [next |-> "log", result |-> [NoResult EXCEPT !.message = "not found"]]
    ELSE LET ci == d.codes[k] IN
         IF ci.activated
         THEN IF ci.activated_at = None
              THEN [next |-> "raise", result |-> NoResult]
              ELSE [next |-> "log",
                    result |-> [valid |-> TRUE, message |-> "valid",
                                expire_at |-> ci.activated_at + Timedelta(ci.duration_days),
                                activated_at |-> ci.activated_at,
                                days |-> ci.duration_days]]
         ELSE [next |-> "activate", result |-> NoResult]

\* ActivationDatabase.verify_code, lines 89-114: the part that only reads
verify_code_read(d, code, t) ==
    LET k == hash_code(code) IN
    IF k \notin DOMAIN d.codes
    THEN [next |-> "log", result |-> [NoResult EXCEPT !.message = "not found"]]
    ELSE LET ci == d.codes[k] IN
         IF ci.activated
         THEN IF ci.activated_at = None
              THEN [next |-> "raise", result |-> NoResult]
              ELSE LET expire_at == ci.activated_at + Timedelta(ci.duration_days) IN
                   IF t > expire_at
                   THEN [next |-> "log",
                         result |-> [NoResult EXCEPT !.message = "expired",
                                                     !.days = ci.duration_days]]
                   ELSE [next |-> "log",
                         result |-> [valid |-> TRUE, message |-> "valid",
                                     expire_at |-> expire_at,
                                     activated_at |-> ci.activated_at,
                                     days |-> ci.duration_days]]
         ELSE [next |-> "activate", result |-> NoResult]

\* verify_activation up to the first write of db.verify_code
verify_activation(t, raw) ==
    /\ variant = "A" /\ Dispatch(t) /\ nreq < MaxRequests
    /\ nreq' = nreq + 1
    /\ UNCHANGED <<variant, now, db, file, faults, acked>>
    /\ LET code == Normalize(raw)
           base == [NoResp EXCEPT !.op = "verify", !.code = code, !.status = 200,
                                  !.pre = NoRecA]
       IN
       IF code = <<>>
       THEN Respond(t, [base EXCEPT !.status = 400, !.message = "empty"])
       ELSE IF ~FormatOK(code)
       THEN Respond(t, [base EXCEPT !.message = "format"])
       ELSE IF ~SignatureOK(code)
       THEN Respond(t, [base EXCEPT !.message = "signature"])
       ELSE LET r == verify_code_read(db, code, now)
                found == IF hash_code(code) \in DOMAIN db.codes
                         THEN db.codes[hash_code(code)] ELSE NoRecA
            IN
            IF r.next = "raise"
            THEN Respond(t, [base EXCEPT !.status = 500, !.message = "error",
                                         !.pre = found, !.at = now])
            ELSE /\ pc' = [pc EXCEPT ![t] =
                        IF r.next = "log" THEN "av_log" ELSE "av_set_activated"]
                 /\ loc' = [loc EXCEPT ![t] =
                        [NoLoc EXCEPT !.op = "verify", !.code = code,
                                      !.result = r.result,
                                      !.pre = found, !.at = now,
                                      !.ci = IF r.next = "log" THEN NoRecA
                                             ELSE db.codes[hash_code(code)]]]
                 /\ resp' = NoResp

\* line 117: code_info["activated"] = True
verify_code_set_activated(t) ==
    /\ pc[t] = "av_set_activated"
    /\ db' = WriteThrough(db, loc[t], "activated", TRUE)
    /\ loc' = [loc EXCEPT ![t].ci.activated = TRUE]
    /\ pc' = [pc EXCEPT ![t] = "av_set_activated_at"]
    /\ resp' = NoResp
    /\ UNCHANGED <<variant, now, file, nreq, faults, acked>>

\* lines 118-119: code_info["activated_at"] = now; self.save_database()
verify_code_set_activated_at(t) ==
    /\ pc[t] = "av_set_activated_at"
    /\ \E fail \in FaultChoices :
         /\ Charge(fail)
         /\ db' = WriteThrough(db, loc[t], "activated_at", now)
         /\ file' = ActivationDatabase_save_database(db', fail)
         /\ loc' = [loc EXCEPT ![t].ci.activated_at = now,
                               ![t].io_failed = loc[t].io_failed \/ fail]
    /\ pc' = [pc EXCEPT ![t] = "av_log"]
    /\ resp' = NoResp
    /\ UNCHANGED <<variant, now, nreq, acked>>

\* lines 121-131: expire_at from a second reading of the clock, and the result
verify_code_result(l, t) ==
    IF l.ci = NoRecA THEN l.result
    ELSE [valid |-> TRUE, message |-> "activated",
          expire_at |-> t + Timedelta(l.ci.duration_days),
          activated_at |-> l.ci.activated_at, days |-> l.ci.duration_days]

\* the rest of db.verify_code, then lines 262-269: db.add_log(...) with its save,
\* and the response
verify_activation_log(t) ==
    /\ pc[t] = "av_log"
    /\ \E fail \in FaultChoices :
         LET result == verify_code_result(loc[t], now) IN
         /\ Charge(fail)
         /\ db' = ActivationDatabase_add_log(db, "verify",
                      [code |-> Redact(loc[t].code), result |-> result.valid,
                       message |-> result.message])
         /\ file' = ActivationDatabase_save_database(db', fail)
         /\ Respond(t, [NoResp EXCEPT
                !.op = "verify", !.code = loc[t].code, !.status = 200,
                !.ok = result.valid, !.message = result.message,
                !.expire_at = result.expire_at,
                !.activated_at = result.activated_at,
                !.first = (result.message = "activated"),
                !.days = result.days,
                !.acked_before = (loc[t].code \in acked),
                !.pre = loc[t].pre, !.at = loc[t].at,
                !.io_failed = loc[t].io_failed \/ fail])
         /\ acked' = IF result.message = "expired" THEN acked \cup {loc[t].code}
                     ELSE acked
    /\ UNCHANGED <<variant, now, nreq>>

\* generate_code: the password check, the type map and the first turn of the loop;
\* generate_code_loop: a later turn.  The last turn returns the response.
\* A handler that holds the dict object add_code replaces now holds an orphan.
generate_code_turn(t, type_code, duration_days, count, out, io_failed) ==
    \E salt \in Salts, fail \in FaultChoices :
        LET code == generate_activation_code(type_map(type_code)[1], salt, now)
            mine == [NoLoc EXCEPT !.op = "generate", !.typ = type_code,
                                  !.days = duration_days, !.remaining = count - 1,
                                  !.out = Append(out, code),
                                  !.io_failed = io_failed \/ fail]
        IN  /\ Charge(fail)
            /\ db' = ActivationDatabase_add_code(db, code, type_map(type_code)[2],
                                                 duration_days)
            /\ file' = ActivationDatabase_save_database(db', fail)
            /\ loc' = [u \in Threads |->
                   IF u = t THEN (IF count = 1 THEN NoLoc ELSE mine)
                   ELSE IF loc[u].op = "verify" /\ loc[u].ci.code = code
                   THEN [loc[u] EXCEPT !.orphan = TRUE]
                   ELSE loc[u]]
            /\ pc' = [pc EXCEPT ![t] = IF count = 1 THEN "idle" ELSE "ag_loop"]
            /\ resp' = IF count = 1
                       THEN [NoResp EXCEPT !.op = "generate", !.status = 200,
                                !.ok = TRUE, !.message = "generated",
                                !.codes = mine.out, !.io_failed = mine.io_failed]
                       ELSE NoResp

generate_code(t, password_ok, type_code, duration_days, count) ==
    /\ variant = "A" /\ Dispatch(t) /\ nreq < MaxRequests
    /\ nreq' = nreq + 1
    /\ UNCHANGED <<variant, now, acked>>
    /\ IF ~password_ok
       THEN /\ Respond(t, [NoResp EXCEPT !.op = "generate", !.status = 401,
                                        !.message = "password"])
            /\ UNCHANGED <<db, file, faults>>
       ELSE generate_code_turn(t, type_code, duration_days, count, <<>>, FALSE)

generate_code_loop(t) ==
    /\ pc[t] = "ag_loop"
    /\ generate_code_turn(t, loc[t].typ, loc[t].days, loc[t].remaining, loc[t].out,
                          loc[t].io_failed)
    /\ UNCHANGED <<variant, now, nreq, acked>>

(* ============================== variant B: cloud_server.py ============= *)
\* f"D{days:03d}", type_code.startswith('D') and int(type_code[1:])
DTokens == <<"D001", "D002", "D003">>
StartsWithD(s) == s \in {"D001", "D002", "D003", "DXYZ"}
IntOfTail(s) ==
    CASE s = "D001" -> 1 [] s = "D002" -> 2 [] s = "D003" -> 3 [] OTHER -> None

\* load_database: any failure to open or parse the file yields the default store
load_database == IF file.torn THEN NoCodes ELSE file.content

\* lines 105-116 of verify_code / 152-161 of activate_code: the type of a code
DecodeType(type_code, unknown_ok) ==
    IF type_code = "P000" THEN [err |-> "none", type |-> "permanent", days |-> 0]
    ELSE IF StartsWithD(type_code)
    THEN IF IntOfTail(type_code) = None
         THEN [err |-> "raise", type |-> "none", days |-> 0]
         ELSE [err |-> "none", type |-> "trial", days |-> IntOfTail(type_code)]
    ELSE IF unknown_ok THEN [err |-> "none", type |-> "unknown", days |-> 0]
    ELSE [err |-> "type", type |-> "none", days |-> 0]

RecordOf(codes, code) ==
    IF hash_code(code) \in DOMAIN codes THEN codes[hash_code(code)] ELSE NoRecB

\* a verify that consumes the record it finds, as Policy A's verify does
verify_code_consuming(t, raw) ==
    /\ variant = "B" /\ Dispatch(t) /\ nreq < MaxRequests
    /\ nreq' = nreq + 1
    /\ UNCHANGED <<variant, now, db, faults, acked>>
    /\ LET code == Normalize(raw)
           found == FormatOK(code) /\ hash_code(code) \in DOMAIN load_database
       IN  /\ file' = IF found
                      THEN [content |-> [load_database EXCEPT ![hash_code(code)].used = TRUE],
                            torn |-> FALSE]
                      ELSE file
           /\ Respond(t, [NoResp EXCEPT !.op = "verify", !.code = code,
                                       !.ok = found])

\* verify_code: one read of the file, the rest is private
verify_code(t, raw) ==
    /\ variant = "B" /\ Dispatch(t) /\ nreq < MaxRequests
    /\ nreq' = nreq + 1
    /\ UNCHANGED <<variant, now, db, file, faults, acked>>
    /\ LET code == Normalize(raw)
           base == [NoResp EXCEPT !.op = "verify", !.code = code, !.status = 400,
                                  !.acked_before = (code \in acked)]
       IN
       IF code = <<>>
       THEN Respond(t, [base EXCEPT !.message = "empty"])
       ELSE IF ~FormatOK(code)
       THEN Respond(t, [base EXCEPT !.message = "format"])
       ELSE IF ~SignatureOK(code)
       THEN Respond(t, [base EXCEPT !.message = "signature"])
       ELSE LET view == load_database
                k == hash_code(code)
                ty == DecodeType(code[2][1], FALSE)
                b2 == [base EXCEPT !.io_failed = file.torn,
                                   !.pre = RecordOf(view, code)]
            IN  IF k \in DOMAIN view /\ view[k].used
                THEN Respond(t, [b2 EXCEPT !.message = "used"])
                ELSE IF ty.err = "raise"
                THEN Respond(t, [b2 EXCEPT !.status = 500, !.message = "error"])
                ELSE IF ty.err = "type"
                THEN Respond(t, [b2 EXCEPT !.message = "type"])
                ELSE Respond(t, [b2 EXCEPT !.status = 200, !.ok = TRUE,
                                           !.message = "valid", !.days = ty.days])

\* activate_code lines 147-175 on the loaded dict: [err, codes]
activate_mutate(codes, code, t, addr) ==
    LET k == hash_code(code)
        ty == DecodeType(code[2][1], TRUE)
        added ==
            IF k \notin DOMAIN codes /\ Len(code) = 5 /\ ty.err = "none"
            THEN Put(codes, k, [code |-> code, type |-> ty.type, days |-> ty.days,
                                used |-> FALSE, used_at |-> None, used_by |-> "None"])
            ELSE codes
    IN  IF k \notin DOMAIN codes /\ Len(code) = 5 /\ ty.err = "raise"
        THEN [err |-> TRUE, codes |-> codes]
        ELSE IF k \notin DOMAIN added
        THEN [err |-> TRUE, codes |-> codes]
        ELSE [err |-> FALSE,
              codes |-> [added EXCEPT ![k].used = TRUE, ![k].used_at = t,
                                      ![k].used_by = addr]]

\* activate_code up to save_database
activate_code(t, raw, addr) ==
    /\ variant = "B" /\ Dispatch(t) /\ nreq < MaxRequests
    /\ nreq' = nreq + 1
    /\ UNCHANGED <<variant, now, db, file, faults, acked>>
    /\ LET code == Normalize(raw)
           base == [NoResp EXCEPT !.op = "activate", !.code = code, !.status = 400,
                                  !.acked_before = (code \in acked)]
       IN
       IF code = <<>>
       THEN Respond(t, [base EXCEPT !.message = "empty"])
       ELSE LET view == load_database
                m == activate_mutate(view, code, now, addr)
            IN  IF m.err
                THEN Respond(t, [base EXCEPT !.status = 500, !.message = "error",
                                             !.io_failed = file.torn])
                ELSE /\ pc' = [pc EXCEPT ![t] = "b_save_open"]
                     /\ loc' = [loc EXCEPT ![t] =
                           [NoLoc EXCEPT !.op = "activate", !.code = code,
                              !.view = m.codes, !.addr = addr,
                              !.io_failed = file.torn, !.pre = RecordOf(view, code)]]
                     /\ resp' = NoResp

\* lines 204-237: the loop of admin_generate on the loaded dict, salts drawn
admin_generate_codes(codes, prefix, days, salts, t) ==
    LET code(i) ==
            LET type_code == IF days = 0 THEN "P000" ELSE DTokens[days]
                sign_data == prefix \o <<Tok(type_code), DateStampB(t), Tok(salts[i])>>
            IN  sign_data \o <<generate_signature(sign_data)>>
        out == [i \in 1..Len(salts) |-> code(i)]
        rec(c) == [code |-> c, type |-> IF days = 0 THEN "permanent" ELSE "trial",
                   days |-> days, used |-> FALSE, used_at |-> None, used_by |-> "None"]
        keys == {hash_code(out[i]) : i \in 1..Len(out)}
        of(k) == CHOOSE i \in 1..Len(out) : hash_code(out[i]) = k
    IN  [codes |-> [k \in DOMAIN codes \cup keys |->
                       IF k \in keys THEN rec(out[of(k)]) ELSE codes[k]],
         out |-> out]

\* admin_generate up to save_database (the loop works on the private dict)
admin_generate(t, prefix, days, count) ==
    /\ variant = "B" /\ Dispatch(t) /\ nreq < MaxRequests
    /\ nreq' = nreq + 1
    /\ \E salts \in [1..count -> Salts] :
         LET g == admin_generate_codes(load_database, prefix, days, salts, now)
         IN  loc' = [loc EXCEPT ![t] =
                   [NoLoc EXCEPT !.op = "generate", !.view = g.codes, !.out = g.out,
                                 !.prefix = prefix, !.days = days,
                                 !.io_failed = file.torn]]
    /\ pc' = [pc EXCEPT ![t] = "b_save_open"]
    /\ resp' = NoResp
    /\ UNCHANGED <<variant, now, db, file, faults, acked>>

\* save_database, open(DB_FILE, 'w'): the file is truncated
save_database_open(t) ==
    /\ pc[t] = "b_save_open"
    /\ file' = [file EXCEPT !.torn = TRUE]
    /\ pc' = [pc EXCEPT ![t] = "b_save_write"]
    /\ loc' = [loc EXCEPT ![t].overwritten = FALSE]
    /\ resp' = NoResp
    /\ UNCHANGED <<variant, now, db, nreq, faults, acked>>

\* what the file holds after this writer's json.dump: its own text, unless another
\* writer's text reached the file after this writer truncated it and is longer, in
\* which case the tail of the other text stays behind and the file is garbage.
\* Texts of as many records can be of either length, unless they are the same text.
WriteOutcomes(t) ==
    LET mine == [content |-> loc[t].view, torn |-> FALSE]
        garbage == [content |-> file.content, torn |-> TRUE]
        n == Cardinality(DOMAIN loc[t].view)
        m == Cardinality(DOMAIN file.content)
    IN  IF ~loc[t].overwritten \/ n > m \/ loc[t].view = file.content THEN {mine}
        ELSE IF n < m THEN {garbage}
        ELSE {mine, garbage}

\* save_database, json.dump and close, then the handler's response
save_database_write(t) ==
    /\ pc[t] = "b_save_write"
    /\ file' \in WriteOutcomes(t)
    /\ resp' = [NoResp EXCEPT
            !.op = loc[t].op, !.code = loc[t].code, !.status = 200, !.ok = TRUE,
            !.message = IF loc[t].op = "activate" THEN "marked" ELSE "generated",
            !.codes = loc[t].out, !.io_failed = loc[t].io_failed,
            !.pre = loc[t].pre, !.post = RecordOf(loc[t].view, loc[t].code)]
    /\ pc' = [pc EXCEPT ![t] = "idle"]
    /\ loc' = [u \in Threads |->
            IF u = t THEN NoLoc
            ELSE IF pc[u] = "b_save_write" THEN [loc[u] EXCEPT !.overwritten = TRUE]
            ELSE loc[u]]
    /\ acked' = IF loc[t].op = "activate" THEN acked \cup {loc[t].code} ELSE acked
    /\ UNCHANGED <<variant, now, db, nreq, faults>>

(* -------------------------------------------------------------- requests *)
\* The code strings a client sends: the codes of the records in the store and the
\* codes it has activated, one authentic code that was never issued (a code of
\* the same key made elsewhere; an issue on day 0 can draw it), a code with a wrong
\* signature (a made-up one, or the signature of another code), one with two
\* fields, one with six, and the empty string.
UnissuedA == generate_activation_code("PERM", "A1", 0)
UnissuedB ==
    LET d == <<Tok("SIQIU"), Tok("P000"), DateStampB(0), Tok("A1")>>
    IN  d \o <<generate_signature(d)>>
Forged == <<Tok("SIQIU"), Tok("P000"), DateStampB(0), Tok("A1"), Tok("0000000000000000")>>
\* a code carrying the authentic signature of another code (of another salt)
ForgedSalt ==
    <<Tok("SIQIU"), Tok("P000"), DateStampB(0), Tok("B2"),
      generate_signature(<<Tok("SIQIU"), Tok("P000"), DateStampB(0), Tok("A1")>>)>>
Malformed == <<Tok("SIQIU"), Tok("P000")>>
\* an authentic code with a sixth field appended
OverlongA == UnissuedA \o <<Tok("X")>>
OverlongB == UnissuedB \o <<Tok("X")>>
CodeInputsA ==
    IF variant = "A"
    THEN {db.codes[k].code : k \in DOMAIN db.codes}
            \cup {UnissuedA, Forged, ForgedSalt, Malformed, OverlongA, <<>>}
    ELSE {}
CodeInputsB ==
    IF variant = "B"
    THEN {file.content[k].code : k \in DOMAIN file.content} \cup acked
            \cup {UnissuedB, Forged, ForgedSalt, Malformed, OverlongB, <<>>}
    ELSE {}
\* the code strings sent to activate: one forged code is enough there
ActivateInputsB == CodeInputsB \ {ForgedSalt}
PrefixInputs == {<<Tok("SIQIU")>>}

Step(t) ==
    \/ \E raw \in CodeInputsA : verify_activation(t, raw)
    \/ verify_code_set_activated(t)
    \/ verify_code_set_activated_at(t)
    \/ verify_activation_log(t)
    \/ \E pw \in BOOLEAN, i \in IssueInputsA, n \in 1..MaxCount :
          generate_code(t, pw, i[1], i[2], n)
    \/ generate_code_loop(t)
    \/ \E raw \in CodeInputsB : verify_code(t, raw)
    \/ \E raw \in ActivateInputsB, a \in Addrs : activate_code(t, raw, a)
    \/ \E p \in PrefixInputs, d \in DurationInputs, n \in 1..MaxCountB :
          admin_generate(t, p, d, n)
    \/ save_database_open(t)
    \/ save_database_write(t)

Next == Tick \/ \E t \in Threads : Step(t)

Spec == Init /\ [][Next]_vars

\* one handler at a time: a request is accepted only when no handler is running
SerialNext == Next /\ (nreq' # nreq => \A t \in Threads : pc[t] = "idle")
SerialSpec == Init /\ [][SerialNext]_vars

(* ---------------------------------------------------------------- claims *)
\* an activate handler of variant B that has loaded the store and not yet answered
ActivateInFlight(t) ==
    /\ pc[t] \in {"b_save_open", "b_save_write"}
    /\ loc[t].op = "activate"

\* C1: Policy B, concurrent activate calls on one code whose record is unconsumed
\* or absent: exactly one call performs consumed false -> true and reports success
\* for it, every other call observes the record as already consumed.  Stated on the
\* state in which one call reports that success: every other activate of the same
\* code that is past its load has observed used = true.
C1_ExactlyOneActivation ==
    (variant = "B" /\ resp.op = "activate" /\ resp.ok /\ ~resp.pre.used)
        => \A t \in Threads :
              (ActivateInFlight(t) /\ loc[t].code = resp.code) => loc[t].pre.used

\* the keys of the records a writing handler of variant B has mutated
Touched(t) ==
    {hash_code(loc[t].code)} \cup {hash_code(loc[t].out[i]) : i \in 1..Len(loc[t].out)}

\* C2: mutating operations are serialized, each handler's load + mutate + persist
\* behaves as one exclusive step and no update is lost.  Stated on the persist step
\* of a handler of variant B whose load succeeded: the store it writes differs from
\* the store it replaces only in the records the handler itself mutated.
C2_NoLostUpdate ==
    [][\A t \in Threads :
          (variant = "B" /\ pc[t] = "b_save_write" /\ pc'[t] = "idle"
              /\ ~loc[t].io_failed)
              => \A k \in DOMAIN file.content \ Touched(t) :
                    k \in DOMAIN file'.content /\ file'.content[k] = file.content[k]]_vars

\* C3: store writes are atomic with respect to reads: a load observes the complete
\* pre-write store or the complete post-write store, never a truncated one and
\* never the empty fallback.  Stated on a verify of variant B that has loaded the
\* store: the record it saw is the one of the last complete text of the file or the
\* one of the text a handler is writing.
C3_ReadsSeeCompleteStore ==
    (variant = "B" /\ resp.op = "verify"
        /\ resp.message \in {"used", "valid", "type", "error"})
        => \/ resp.pre = RecordOf(file.content, resp.code)
           \/ \E t \in Threads :
                 pc[t] = "b_save_write" /\ resp.pre = RecordOf(loc[t].view, resp.code)

\* the keys of the consumed records of the store
Consumed ==
    IF variant = "A"
    THEN {k \in DOMAIN db.codes : db.codes[k].activated}
    ELSE {k \in DOMAIN file.content : file.content[k].used}

\* C4: in both variants the consumption flag is monotone and records are never
\* destroyed: a record stored with activated / used = true is present with the flag
\* true in every later state, also after an issue that draws a colliding salt.
C4_ConsumedIsForever == [][Consumed \subseteq Consumed']_vars

\* C5: Policy A, every verify of a code that returns valid = true, the first
\* (activating) one included, returns the same expire_at.  Stated on a valid verify
\* response: a verify of the same code made at once, if valid, returns that
\* expire_at.
C5_SameExpiryEveryVerify ==
    (variant = "A" /\ resp.op = "verify" /\ resp.ok)
        => LET again == verify_code_read(db, resp.code, now).result
           IN  again.valid => again.expire_at = resp.expire_at

\* C6: Policy A, a record issued with duration_days = 0 never expires: no verify
\* of it returns the "expired" result.
C6_ZeroDurationNeverExpires ==
    (variant = "A" /\ resp.op = "verify" /\ resp.message = "expired")
        => resp.days # 0

\* C7: Policy A, the first verify of an issued code returns valid = true, sets the
\* consumed flag, stores the activation time and returns
\* expiry = stored activation time + duration_days.
C7_FirstVerifyExpiry ==
    (variant = "A" /\ resp.op = "verify" /\ resp.first)
        => /\ resp.ok
           /\ resp.activated_at # None
           /\ resp.expire_at = resp.activated_at + Timedelta(resp.days)

\* the code has a good signature and a well-formed edition field
WellFormedB(code) ==
    /\ Len(code) = 5
    /\ code[5] = generate_signature(SubSeq(code, 1, 4))
    /\ DecodeType(code[2][1], FALSE).err = "none"

\* C8: Policy B, an authentic, well-formed code with no record verifies as valid
\* with the duration decoded from the code; after one activate of a code has
\* completed, every later verify of it returns the "already used" result.
C8_VerifyAfterActivate ==
    (variant = "B" /\ resp.op = "verify")
        => /\ (WellFormedB(resp.code) /\ resp.pre = NoRecB)
                 => (resp.ok /\ resp.days = DecodeType(resp.code[2][1], FALSE).days)
           /\ (WellFormedB(resp.code) /\ resp.acked_before) => resp.message = "used"

\* C9: Policy B, activate on a record that is already consumed succeeds and leaves
\* used_at and used_by as the first consumption set them.
C9_ReactivationKeepsFirstUse ==
    (variant = "B" /\ resp.op = "activate" /\ resp.pre.used)
        => /\ resp.ok
           /\ resp.post.used_at = resp.pre.used_at
           /\ resp.post.used_by = resp.pre.used_by

\* C10: persistence failures are never masked: a verify, activate or issue during
\* which a read or a write of the persisted store failed ends in the internal
\* error outcome (500), never in a verdict or a success.
C10_IoFailureIsSurfaced == resp.io_failed => resp.status = 500

\* the store holds at least one record
StoreNonEmpty ==
    \/ variant = "A" /\ DOMAIN db.codes # {}
    \/ variant = "B" /\ DOMAIN file.content # {}

\* C11: in both variants a verify of a non-empty input that does not split into
\* exactly 5 fields returns the malformed-format result, and the step leaves the
\* store, the file and the audit log as they were.
C11_MalformedIsRejected ==
    [][(resp'.op = "verify" /\ resp'.code # <<>> /\ Len(resp'.code) # 5)
          => (resp'.message = "format" /\ db' = db /\ file' = file)]_vars

\* a six-field input has been rejected over a store that holds records
C11_Witness ==
    resp.op = "verify" /\ resp.message = "format" /\ Len(resp.code) = 6 /\ StoreNonEmpty

\* C12: in both variants a verify of a 5-field code whose signature field differs
\* from the signature recomputed over the first four fields returns the
\* signature-failure result, never valid = true, and leaves every record of the
\* store unchanged, whatever the store holds for that code string.
C12_BadSignatureIsRejected ==
    [][(resp'.op = "verify" /\ Len(resp'.code) = 5
            /\ resp'.code[5] # generate_signature(SubSeq(resp'.code, 1, 4)))
          => (resp'.message = "signature" /\ ~resp'.ok
                /\ db'.codes = db.codes /\ file' = file)]_vars

\* a code with a wrong signature has been rejected although the store holds a
\* record under its key (activate_code made it)
C12_Witness ==
    /\ variant = "B" /\ resp.op = "verify" /\ resp.message = "signature"
    /\ hash_code(resp.code) \in DOMAIN file.content

\* C13: Policy A, every verification attempt that passes parsing (signature
\* failure, not found, expired, valid, newly activated) appends exactly one entry
\* to the audit log, carrying the redacted code, the outcome and the message.
C13_EveryAttemptIsLogged ==
    [][(variant = "A" /\ resp'.op = "verify" /\ Len(resp'.code) = 5)
          => /\ Len(db'.logs) = Len(db.logs) + 1
             /\ db'.logs[Len(db'.logs)] =
                   [action |-> "verify",
                    details |-> [code |-> Redact(resp'.code), result |-> resp'.ok,
                                 message |-> resp'.message]]]_vars

(* ------------------------------------------------------- the audit log *)
\* One call of ActivationDatabase.add_log with its save.  The caller passes the
\* number of the call as details, which tells the entries apart; nreq counts the
\* calls.
add_log(action) ==
    /\ variant = "A"
    /\ nreq < LOG_CAP + MaxOverflow
    /\ nreq' = nreq + 1
    /\ db' = ActivationDatabase_add_log(db, action, nreq + 1)
    /\ file' = ActivationDatabase_save_database(db', FALSE)
    /\ resp' = NoResp
    /\ UNCHANGED <<variant, now, pc, loc, faults, acked>>

\* the server of variant A on an empty store, taking calls of add_log only
LogInit == Init /\ variant = "A"
LogNext == add_log("verify")
LogSpec == LogInit /\ [][LogNext]_vars

\* C14: the audit log is a ring buffer capped at 1000 entries: after n calls of
\* add_log its length is min(n, 1000) and it holds the most recent min(n, 1000)
\* entries in the order they were appended.
C14_LogIsRingBuffer ==
    LET n == nreq
        len == Len(db.logs)
    IN  /\ len = IF n < LOG_CAP THEN n ELSE LOG_CAP
        /\ \A i \in 1..len :
              db.logs[i] = [action |-> "verify", details |-> n - len + i]

\* more calls than the cap have been made: the oldest entries are gone
C14_Witness == nreq > LOG_CAP /\ Len(db.logs) = LOG_CAP /\ db.logs[1].details > 1

(* ------------------------------------------------------ issue and list *)
\* ActivationDatabase.list_codes: one entry for every record
ActivationDatabase_list_codes(d) == {d.codes[k] : k \in DOMAIN d.codes}

\* the route /api/list of variant A
list_codes(t, password_ok) ==
    /\ variant = "A" /\ Dispatch(t)
    /\ Respond(t, IF password_ok
                  THEN [NoResp EXCEPT !.op = "list", !.status = 200, !.ok = TRUE,
                                      !.records = ActivationDatabase_list_codes(db)]
                  ELSE [NoResp EXCEPT !.op = "list", !.status = 401,
                                      !.message = "password"])
    /\ UNCHANGED <<variant, now, db, file, nreq, faults, acked>>

\* the route /api/admin/list of variant B
admin_list(t) ==
    /\ variant = "B" /\ Dispatch(t)
    /\ LET view == load_database
       IN  Respond(t, [NoResp EXCEPT !.op = "list", !.status = 200, !.ok = TRUE,
                                     !.records = {view[k] : k \in DOMAIN view},
                                     !.io_failed = file.torn])
    /\ UNCHANGED <<variant, now, db, file, nreq, faults, acked>>

\* the prefixes an admin_generate request can carry: the default, a lower-case one
\* and one that holds the delimiter (MY-APP)
PrefixInputsAll == {<<Tok("SIQIU")>>, <<Tok("siqiu")>>, <<Tok("MY"), Tok("APP")>>}

\* The server taking issue requests of count 1 and list requests only, one request
\* at a time; nreq counts the issue requests.
IssueRequest(t) ==
    \/ \E i \in IssueInputsA : generate_code(t, TRUE, i[1], i[2], 1)
    \/ \E p \in PrefixInputsAll, d \in DurationInputs : admin_generate(t, p, d, 1)
    \/ \E pw \in BOOLEAN : list_codes(t, pw)
    \/ admin_list(t)

IssueNext ==
    \/ Tick
    \/ \E t \in Threads : save_database_open(t)
    \/ \E t \in Threads : save_database_write(t)
    \/ (\A u \in Threads : pc[u] = "idle") /\ \E t \in Threads : IssueRequest(t)

IssueSpec == Init /\ [][IssueNext]_vars

\* C15: starting from an empty store, after N issue calls of count 1 each and no
\* other operation, the list of records holds exactly N records and every one of
\* them has its consumption flag false.
C15_ListAfterIssues ==
    (resp.op = "list" /\ resp.ok)
        => /\ Cardinality(resp.records) = nreq
           /\ \A r \in resp.records : IF variant = "A" THEN ~r.activated ELSE ~r.used

(* --------------------------------------------------- a restarted server *)
\* The stores a previous run of variant A leaves in the file after one issue of
\* count 1 on day 0 and the activating verify of the code at time 0.
RestartStores ==
    {LET code == generate_activation_code(type_map(i[1])[1], "A1", 0)
         issued == ActivationDatabase_add_code(EmptyDb, code, type_map(i[1])[2], i[2])
         activated == [issued EXCEPT !.codes[hash_code(code)].activated = TRUE,
                                     !.codes[hash_code(code)].activated_at = 0]
     IN  ActivationDatabase_add_log(activated, "verify",
             [code |-> Redact(code), result |-> TRUE, message |-> "activated"])
       : i \in IssueInputsA}

\* ActivationDatabase.__init__ on an existing file: load_database reads it
RestartInit ==
    /\ variant = "A"
    /\ now = 0
    /\ db \in RestartStores
    /\ file = [content |-> db, torn |-> FALSE]
    /\ pc = [t \in Threads |-> "idle"]
    /\ loc = [t \in Threads |-> NoLoc]
    /\ resp = NoResp
    /\ nreq = 0
    /\ faults = 0
    /\ acked = {}

\* the handlers of variant A, one request at a time
RestartStep(t) ==
    \/ \E raw \in CodeInputsA : verify_activation(t, raw)
    \/ verify_code_set_activated(t)
    \/ verify_code_set_activated_at(t)
    \/ verify_activation_log(t)
    \/ \E pw \in BOOLEAN, i \in IssueInputsA, n \in 1..MaxCount :
          generate_code(t, pw, i[1], i[2], n)
    \/ generate_code_loop(t)

RestartNext ==
    (Tick \/ \E t \in Threads : RestartStep(t))
        /\ (nreq' # nreq => \A t \in Threads : pc[t] = "idle")

RestartSpec == RestartInit /\ [][RestartNext]_vars

\* C16: Policy A, with a non-decreasing clock: once a verify of a code has
\* returned the "expired" result, no later verify of that code string returns
\* valid = true, whatever issue and verify operations come in between.
C16_ExpiredIsTerminal ==
    (variant = "A" /\ resp.op = "verify" /\ resp.acked_before) => ~resp.ok

\* the stores of RestartStores are stores a run from the empty store writes
RestartStoreReached ==
    variant = "A" /\ db \in RestartStores /\ file.content = db /\ ~file.torn
        /\ \A t \in Threads : pc[t] = "idle"

\* C17: every code an issue request returns is upper-case, has exactly five
\* fields, and carries as its fifth field the signature verify recomputes over
\* the first four fields of the normalized code, for every accepted prefix,
\* duration and count.
C17_IssuedCodesAreAuthentic ==
    (resp.op = "generate" /\ resp.ok)
        => \A i \in 1..Len(resp.codes) :
              /\ FormatOK(resp.codes[i])
              /\ Normalize(resp.codes[i]) = resp.codes[i]
              /\ SignatureOK(Normalize(resp.codes[i]))

\* C18: Policy B: a verify request leaves the persisted store exactly as it
\* was, whatever its outcome (valid, used, format, signature or server error).
C18_VerifyIsReadOnly ==
    [][(variant = "B" /\ resp'.op = "verify") => file' = file]_vars

C18_Witness ==
    /\ variant = "B" /\ resp.op = "verify" /\ resp.ok
    /\ hash_code(resp.code) \in DOMAIN file.content
    /\ ~file.content[hash_code(resp.code)].used

\* C19: Policy A: verify answers valid = true only for an authentic code whose
\* record exists and was, when the call read the store, either unconsumed or
\* consumed with the clock not past activation time + duration; an authentic
\* code without a record gets the "does not exist" answer, and the call creates
\* and changes no record.
C19_ValidOnlyWhenEntitled ==
    [][(variant = "A" /\ resp'.op = "verify")
          => /\ resp'.ok
                  => /\ FormatOK(resp'.code) /\ SignatureOK(resp'.code)
                     /\ resp'.pre # NoRecA
                     /\ \/ ~resp'.pre.activated
                        \/ resp'.at <= resp'.pre.activated_at
                                          + Timedelta(resp'.pre.duration_days)
             /\ (FormatOK(resp'.code) /\ SignatureOK(resp'.code)
                     /\ resp'.pre = NoRecA)
                  => /\ resp'.message = "not found" /\ ~resp'.ok
                     /\ db'.codes = db.codes]_vars

C19_Witness ==
    /\ variant = "A" /\ resp.op = "verify" /\ resp.ok
    /\ resp.pre # NoRecA /\ resp.pre.activated
    /\ resp.at = resp.pre.activated_at + Timedelta(resp.pre.duration_days)

\* a "does not exist" answer over a non-empty store
MissingRecordAnswered ==
    /\ variant = "A" /\ resp.op = "verify" /\ resp.message = "not found"
    /\ StoreNonEmpty

\* the records of the store: the file of variant B, the dict of variant A
StoredRecords ==
    IF variant = "A" THEN {db.codes[k] : k \in DOMAIN db.codes}
    ELSE {file.content[k] : k \in DOMAIN file.content}

\* C20: every record in the store belongs to an authentic code, one of five
\* fields whose fifth field is the signature of the first four: no operation,
\* activate in particular, creates or consumes a record for a code that fails
\* the format or the signature check.
C20_StoreHoldsAuthenticCodes ==
    \A r \in StoredRecords : FormatOK(r.code) /\ SignatureOK(r.code)

\* C21: Policy A: in every reachable state, those in the middle of concurrently
\* running verify handlers included, a record with activated = true has an
\* activated_at that is not null, and no verify ends in an internal error.
C21_ActivatedHasTimestamp ==
    variant = "A"
        => /\ \A k \in DOMAIN db.codes :
                 db.codes[k].activated => db.codes[k].activated_at # None
           /\ ~(resp.op = "verify" /\ resp.status = 500)

\* a verify that read a record between lines 117 and 118 of another verify
InternalErrorAnswered ==
    /\ variant = "A" /\ resp.op = "verify" /\ resp.status = 500
    /\ resp.pre.activated /\ resp.pre.activated_at = None


====
